---- MODULE Spec2Model ----
(***************************************************************************)
(* Model of the vidbeamer ephemeral video store (src/server.ts): the       *)
(* upload route backed by multer's disk storage, the viewer and static     *)
(* read routes, and the periodic cleanup sweep over the upload directory.  *)
(* Time is counted in units of one cleanup interval (15 minutes); file     *)
(* sizes are counted in chunks, the 500MB ceiling being FILE_SIZE_LIMIT    *)
(* chunks.  File names and request ids are sequences of one-token strings  *)
(* so that path.extname and path.join are computed, not assumed.           *)
(***************************************************************************)
EXTENDS Integers, Sequences, FiniteSets, TLC

\* ---------------------------------------------------------------- bounds
\* the horizon of the store with concurrent uploads, the number of upload
\* requests, the number of sweeps in flight at once, and the longer horizon
\* of the single-asset lifecycle
MaxTime == 5
MaxReqs == 2
MaxSweeps == 1
MaxTimeReaper == 6
\* the number of sweeps in flight at once where sweeps overlap
MaxOverlap == 2

\* ------------------------------------------------------ program constants
\* const CLEANUP_INTERVAL = 15 * 60 * 1000  (one time unit)
CLEANUP_INTERVAL == 1
\* const MAX_AGE = 60 * 60 * 1000  (four time units)
MAX_AGE == 4
\* limits: { fileSize: 500 * 1024 * 1024 }  (in chunks)
FILE_SIZE_LIMIT == 1

\* ------------------------------------------------------------ path model
Min(a, b) == IF a < b THEN a ELSE b
Max(a, b) == IF a > b THEN a ELSE b

\* index of the last occurrence of token c in s, 0 when there is none
LastIndexOf(s, c) ==
  LET I == {i \in 1..Len(s) : s[i] = c}
  IN IF I = {} THEN 0 ELSE CHOOSE i \in I : \A j \in I : j <= i

RECURSIVE StripTrailingSlashes(_)
StripTrailingSlashes(s) ==
  IF Len(s) > 0 /\ s[Len(s)] = "/"
  THEN StripTrailingSlashes(SubSeq(s, 1, Len(s) - 1))
  ELSE s

\* the last path component of s (trailing separators ignored)
Basename(s) ==
  LET t == StripTrailingSlashes(s)
      k == LastIndexOf(t, "/")
  IN SubSeq(t, k + 1, Len(t))

\* path.extname: from the last "." of the last component to its end; empty
\* when there is no ".", when the only "." is the component's first token,
\* or when the component is ".."
extname(s) ==
  LET b == Basename(s)
      d == LastIndexOf(b, ".")
  IN IF d = 0 \/ d = 1 \/ b = <<".", ".">> THEN <<>> ELSE SubSeq(b, d, Len(b))

\* the components of s between "/" separators (empty components included)
RECURSIVE Split(_)
Split(s) ==
  LET I == {i \in 1..Len(s) : s[i] = "/"}
  IN IF I = {} THEN <<s>>
     ELSE LET k == CHOOSE i \in I : \A j \in I : i <= j
          IN <<SubSeq(s, 1, k - 1)>> \o Split(SubSeq(s, k + 1, Len(s)))

\* path.normalize on a list of components below the filesystem root
RECURSIVE Normalize(_, _)
Normalize(acc, segs) ==
  IF segs = <<>> THEN acc
  ELSE LET h == Head(segs)
       IN IF h = <<>> \/ h = <<".">> THEN Normalize(acc, Tail(segs))
          ELSE IF h = <<".", ".">>
               THEN Normalize(IF acc = <<>> THEN acc ELSE SubSeq(acc, 1, Len(acc) - 1),
                              Tail(segs))
               ELSE Normalize(Append(acc, h), Tail(segs))

\* path.join(dir, name)
PathJoin(dir, name) == Normalize(dir, Split(name))

\* const uploadDir = path.join(process.cwd(), "uploads")
uploadDir == << <<"cwd">>, <<"uploads">> >>

\* what exists on the disk outside the upload directory: the root, the
\* working directory, and one file of the working directory
OutsidePaths == { <<>>, << <<"cwd">> >>, << <<"cwd">>, <<"s">> >> }

\* a path that names an entry directly inside the upload directory
InsideUploadDir(p) ==
  /\ Len(p) = Len(uploadDir) + 1
  /\ SubSeq(p, 1, Len(uploadDir)) = uploadDir
  /\ "/" \notin {p[Len(p)][i] : i \in 1..Len(p[Len(p)])}

\* a generator that returns the same token every time
uuidv4_reused(used) == ToString(1)

\* uuidv4(): a token never returned before
uuidv4(used) ==
  LET i == CHOOSE i \in 1..(Cardinality(used) + 1) : ToString(i) \notin used
  IN ToString(i)

\* filename callback: uuidv4() + (path.extname(file.originalname) || '.mp4')
filename(used, originalname) ==
  LET ext == IF extname(originalname) = <<>> THEN <<".", "mp4">>
             ELSE extname(originalname)
  IN <<uuidv4(used)>> \o ext

\* ------------------------------------------------------------ the inputs
\* upload requests with one file part under the field "video": the declared
\* name and media type of the part, and its length in chunks
Requests ==
  [kind : {"single"}, originalname : {<<"/", ".", ".", "m">>}, mime : {"video"},
   size : 1..(FILE_SIZE_LIMIT + 1)]
  \cup
  [kind : {"single"}, originalname : {<<".", ".", "/", "a">>}, mime : {"other"},
   size : {FILE_SIZE_LIMIT}]


\* every file name an upload can be stored under
FileNames ==
  {<<ToString(i)>> \o e : i \in 1..MaxReqs, e \in {<<".", "m">>, <<".", "mp4">>}}

\* ids that no upload ever mints: a plain unknown name, the parent of the
\* upload directory, and a file outside the upload directory
ForeignIds ==
  { <<"x">>, <<".", ".">>, <<".", ".", "/", "s">> }

\* the ids a reader may ask for
ReadIds == FileNames \cup ForeignIds

\* ------------------------------------------------------------- the state
VARIABLES
  clock,      \* Date.now(), in cleanup intervals
  nextDue,    \* when the setInterval timer fires next
  files,      \* the upload directory: file name -> [size, mtime]
  used,       \* the uuid tokens handed out so far
  req,        \* the POST /api/upload requests, by slot
  sw,         \* the cleanup sweeps in flight, by slot
  hist        \* history: when the last sweep started, the stored assets a
              \* sweep handled without error at or after their TTL, and the
              \* names whose unlink callback was handed ENOENT
VARIABLES
  ui          \* the upload page (App): its React state and the handleFile
              \* calls, by slot

vars == <<clock, nextDue, files, used, req, sw, hist, ui>>

\* the state of the server
server == <<clock, nextDue, files, used, req, sw, hist>>

NewReq ==
  [st |-> "new", kind |-> "none", size |-> 0, written |-> 0, name |-> <<>>,
   mime |-> "none", status |-> 0, tlast |-> 0]

IdleSweep == [st |-> "idle", start |-> 0, now |-> 0, pend |-> <<>>]

\* a handleFile call that has not been made
NewCall ==
  [st |-> "new", file |-> [type |-> <<>>, size |-> 0, originalname |-> <<>>]]

\* useState(false), useState(null), useState(null): null is the empty text
InitApp ==
  [uploading |-> FALSE, videoUrl |-> <<>>, error |-> <<>>,
   call |-> [j \in 1..MaxReqs |-> NewCall]]

Init ==
  /\ clock = 0
  /\ nextDue = CLEANUP_INTERVAL
  /\ files = <<>>
  /\ used = {}
  /\ req = [r \in 1..MaxReqs |-> NewReq]
  /\ sw = [s \in 1..MaxSweeps |-> IdleSweep]
  /\ hist = [lastStart |-> 0, atTTL |-> {}, pastTTL |-> {}, enoent |-> {}]
  /\ ui = InitApp

\* -------------------------------------------------------- the file system
\* fs.existsSync(path)
existsSync(p) ==
  \/ p \in OutsidePaths
  \/ p = uploadDir
  \/ /\ Len(p) = Len(uploadDir) + 1
     /\ SubSeq(p, 1, Len(uploadDir)) = uploadDir
     /\ p[Len(p)] \in DOMAIN files

\* fs.createWriteStream(path): the file is created empty (or truncated)
CreateFile(fs, n, t) == (n :> [size |-> 0, mtime |-> t]) @@ fs

\* a chunk written through an open descriptor: the directory entry grows
\* only while the file is still linked
WriteChunk(fs, n, len, t) ==
  IF n \in DOMAIN fs
  THEN [fs EXCEPT ![n] = [size |-> Max(@.size, len), mtime |-> t]]
  ELSE fs

\* fs.unlink(path): the entry is removed (no entry: ENOENT, nothing changes)
Unlink(fs, n) == [m \in DOMAIN fs \ {n} |-> fs[m]]

\* ------------------------------------------------------------- the reads
\* app.get("/v/:id"): the viewer page when the joined path exists, else the
\* 404 expiry page
Viewer(id) == IF existsSync(PathJoin(uploadDir, id)) THEN 200 ELSE 404

\* the two pages of app.get("/v/:id"): the 404 page is one fixed text, the
\* viewer page embeds the id in the video's address
NotFoundPage == <<"Video Expired or Not Found">>
ViewerPage(id) == <<"Beam - Shared Video", "/uploads/">> \o id

\* the response of app.get("/v/:id") where a missing file is told apart by
\* whether its uuid was ever handed out
ViewerResponse_gone(id) ==
  IF existsSync(PathJoin(uploadDir, id))
  THEN [status |-> 200, page |-> ViewerPage(id)]
  ELSE IF Len(id) > 0 /\ id[1] \in used
       THEN [status |-> 410, page |-> <<"Video Expired">>]
       ELSE [status |-> 404, page |-> NotFoundPage]

\* the response of app.get("/v/:id"): status and page
ViewerResponse(id) ==
  IF existsSync(PathJoin(uploadDir, id))
  THEN [status |-> 200, page |-> ViewerPage(id)]
  ELSE [status |-> 404, page |-> NotFoundPage]

\* express.static(uploadDir): the bytes of a regular file of the directory;
\* a ".." component or a dot-file component is refused
Static(id) ==
  LET segs == Split(id)
      bad == \E i \in 1..Len(segs) : Len(segs[i]) > 0 /\ segs[i][1] = "."
      p == PathJoin(uploadDir, id)
  IN IF ~bad /\ Len(p) = Len(uploadDir) + 1 /\ p[Len(p)] \in DOMAIN files
     THEN [status |-> 200, size |-> files[p[Len(p)]].size]
     ELSE [status |-> 404, size |-> 0]

\* the two GET routes answer from the current directory and change nothing
ViewerGet(id) ==
  /\ Viewer(id) \in {200, 404}
  /\ UNCHANGED vars

StaticGet(id) ==
  /\ Static(id).status \in {200, 404}
  /\ UNCHANGED vars

\* ----------------------------------------------------------- the uploads
\* the callbacks without the LIMIT_FILE_SIZE case: every multer error is a 400
UploadStatus_no413(err, hasFile) ==
  IF err = "LIMIT_FILE_SIZE" \/ err = "LIMIT_UNEXPECTED_FILE" THEN 400
  ELSE IF err # "none" THEN 500
  ELSE IF ~hasFile THEN 400
  ELSE 200

\* the two callbacks of app.post("/api/upload"): the status for the error
\* multer reports (or "none") and for req.file being set or not
UploadStatus(err, hasFile) ==
  IF err = "LIMIT_FILE_SIZE" THEN 413
  ELSE IF err = "LIMIT_UNEXPECTED_FILE" THEN 400
  ELSE IF err # "none" THEN 500
  ELSE IF ~hasFile THEN 400
  ELSE 200

\* the number of chunks the disk stream receives: the file stream is cut
\* at the fileSize limit
Target(q) == Min(q.size, FILE_SIZE_LIMIT)

\* the slots are taken in order
CanStart(r) ==
  /\ req[r].st = "new"
  /\ \A u \in 1..(r - 1) : req[u].st # "new"

\* a request without a file part under any field: next() with no req.file
UploadNoFile(r) ==
  /\ CanStart(r)
  /\ req' = [req EXCEPT ![r] = [@ EXCEPT !.st = "done", !.kind = "nofile",
                                         !.status = UploadStatus("none", FALSE)]]
  /\ UNCHANGED <<ui, clock, nextDue, files, used, sw, hist>>

\* a file part under a field other than "video": refused before storage
UploadUnexpectedField(r) ==
  /\ CanStart(r)
  /\ req' = [req EXCEPT ![r] = [@ EXCEPT !.st = "done", !.kind = "wrongfield",
                                         !.status = UploadStatus("LIMIT_UNEXPECTED_FILE", FALSE)]]
  /\ UNCHANGED <<ui, clock, nextDue, files, used, sw, hist>>

\* the "video" file part arrives: the storage names the file and opens it
\* for writing under its final name in the upload directory
UploadOpen(r, q) ==
  /\ CanStart(r)
  /\ LET n == filename(used, q.originalname)
     IN /\ req' = [req EXCEPT ![r] = [@ EXCEPT !.st = "writing", !.kind = q.kind,
                                               !.size = q.size, !.mime = q.mime,
                                               !.name = n, !.tlast = clock]]
        /\ used' = used \cup {n[1]}
        /\ files' = CreateFile(files, n, clock)
  /\ UNCHANGED <<ui, clock, nextDue, sw, hist>>

\* one more chunk of the file part reaches the disk
UploadWrite(r) ==
  /\ req[r].st = "writing"
  /\ req[r].written < Target(req[r])
  /\ req' = [req EXCEPT ![r] = [@ EXCEPT !.written = @ + 1, !.tlast = clock]]
  /\ files' = WriteChunk(files, req[r].name, req[r].written + 1, clock)
  /\ UNCHANGED <<ui, clock, nextDue, used, sw, hist>>

\* the disk stream fails (disk full): the error reaches the route's callback,
\* and nothing removes the file written so far
UploadWriteError(r) ==
  /\ req[r].st = "writing"
  /\ req[r].written < Target(req[r])
  /\ req' = [req EXCEPT ![r] = [@ EXCEPT !.st = "done",
                                         !.status = UploadStatus("EIO", FALSE)]]
  /\ UNCHANGED <<ui, clock, nextDue, files, used, sw, hist>>

\* the disk stream finishes.  A file cut at the limit is handed to removal;
\* otherwise the route answers 200
UploadFinish(r) ==
  /\ req[r].st = "writing"
  /\ req[r].written = Target(req[r])
  /\ IF req[r].size > FILE_SIZE_LIMIT
     THEN req' = [req EXCEPT ![r].st = "removing"]
     ELSE req' = [req EXCEPT ![r] = [@ EXCEPT !.st = "done",
                                              !.status = UploadStatus("none", TRUE)]]
  /\ UNCHANGED <<ui, clock, nextDue, files, used, sw, hist>>

\* the file cut at the limit is unlinked, then the error is answered
UploadRemove(r) ==
  /\ req[r].st = "removing"
  /\ files' = Unlink(files, req[r].name)
  /\ req' = [req EXCEPT ![r] = [@ EXCEPT !.st = "done",
                                         !.status = UploadStatus("LIMIT_FILE_SIZE", FALSE)]]
  /\ UNCHANGED <<ui, clock, nextDue, used, sw, hist>>

\* the client disconnects while the file part is being written: the request
\* stream never ends, no callback runs, the file stays as written
UploadAbort(r) ==
  /\ req[r].st = "writing"
  /\ req' = [req EXCEPT ![r].st = "aborted"]
  /\ UNCHANGED <<ui, clock, nextDue, files, used, sw, hist>>

\* ------------------------------------------------------------ the Reaper
\* the age test with the sweep interval added to the limit
Expired_plusInterval(now, mtime) == now - mtime > MAX_AGE + CLEANUP_INTERVAL

\* the age test of the sweep
Expired(now, mtime) == now - mtime > MAX_AGE

\* an entry of a sweep is finished; the sweep is over with its last entry
DropEntry(s, n) ==
  LET rest == [m \in DOMAIN sw[s].pend \ {n} |-> sw[s].pend[m]]
  IN IF DOMAIN rest = {} THEN [sw EXCEPT ![s] = IdleSweep]
     ELSE [sw EXCEPT ![s].pend = rest]

\* history: sweep s handled entry n with no I/O error.  The entry is noted
\* when it is a stored asset (its upload was answered 200, its bytes last
\* written at T) and the sweep started at or after T + TTL, respectively
\* took its timestamp after T + TTL
Handled(s, n) ==
  LET A(t) == \E r \in 1..MaxReqs :
                /\ req[r].name = n /\ req[r].status = 200
                /\ t >= req[r].tlast + MAX_AGE
  IN [hist EXCEPT !.atTTL = @ \cup (IF A(sw[s].start) THEN {n} ELSE {}),
                  !.pastTTL = @ \cup (IF A(sw[s].now - 1) THEN {n} ELSE {})]

\* the timer fires: fs.readdir is called
SweepStart ==
  /\ clock = nextDue
  /\ \E s \in DOMAIN sw :
       /\ sw[s].st = "idle"
       /\ \A u \in 1..(s - 1) : sw[u].st # "idle"
       /\ sw' = [sw EXCEPT ![s] = [st |-> "scanning", start |-> clock, now |-> 0,
                                   pend |-> <<>>]]
  /\ nextDue' = nextDue + CLEANUP_INTERVAL
  /\ hist' = [hist EXCEPT !.lastStart = clock]
  /\ UNCHANGED <<ui, clock, files, used, req>>

\* a readdir error after which the sweep is never finished
ReaddirFail_stuck(s) ==
  /\ sw[s].st = "scanning"
  /\ sw' = [sw EXCEPT ![s].st = "failed"]
  /\ UNCHANGED <<ui, clock, nextDue, files, used, req, hist>>

\* the readdir callback with an error: the sweep ends
ReaddirFail(s) ==
  /\ sw[s].st = "scanning"
  /\ sw' = [sw EXCEPT ![s] = IdleSweep]
  /\ UNCHANGED <<ui, clock, nextDue, files, used, req, hist>>

\* the readdir callback: now = Date.now(), fs.stat is called for every entry
ReaddirDone(s) ==
  /\ sw[s].st = "scanning"
  /\ sw' = IF DOMAIN files = {} THEN [sw EXCEPT ![s] = IdleSweep]
           ELSE [sw EXCEPT ![s] = [@ EXCEPT !.st = "deleting", !.now = clock,
                                            !.pend = [n \in DOMAIN files |-> "stat"]]]
  /\ UNCHANGED <<ui, clock, nextDue, files, used, req, hist>>

\* the stat callback of one entry: an entry that is gone is skipped, an
\* expired one gets fs.unlink, any other is left
StatDone(s, n) ==
  /\ sw[s].st = "deleting"
  /\ n \in DOMAIN sw[s].pend
  /\ sw[s].pend[n] = "stat"
  /\ IF n \notin DOMAIN files
     THEN sw' = DropEntry(s, n) /\ hist' = hist
     ELSE IF Expired(sw[s].now, files[n].mtime)
          THEN sw' = [sw EXCEPT ![s].pend[n] = "unlink"] /\ hist' = hist
          ELSE sw' = DropEntry(s, n) /\ hist' = Handled(s, n)
  /\ UNCHANGED <<ui, clock, nextDue, files, used, req>>

\* the unlink callback of one entry, where a failed unlink ends the sweep
UnlinkDone_abortOnError(s, n) ==
  /\ sw[s].st = "deleting"
  /\ n \in DOMAIN sw[s].pend
  /\ sw[s].pend[n] = "unlink"
  /\ files' = Unlink(files, n)
  /\ sw' = IF n \in DOMAIN files THEN DropEntry(s, n)
           ELSE [sw EXCEPT ![s] = IdleSweep]
  /\ hist' = [Handled(s, n) EXCEPT
                !.enoent = @ \cup (IF n \in DOMAIN files THEN {} ELSE {n})]
  /\ UNCHANGED <<ui, clock, nextDue, used, req>>

\* the unlink callback of one entry: the entry is removed and the deletion
\* logged, or the call failed with ENOENT (the file was already gone) and
\* the callback does nothing
UnlinkDone(s, n) ==
  /\ sw[s].st = "deleting"
  /\ n \in DOMAIN sw[s].pend
  /\ sw[s].pend[n] = "unlink"
  /\ files' = Unlink(files, n)
  /\ sw' = DropEntry(s, n)
  /\ hist' = [Handled(s, n) EXCEPT
                !.enoent = @ \cup (IF n \in DOMAIN files THEN {} ELSE {n})]
  /\ UNCHANGED <<ui, clock, nextDue, used, req>>

\* an I/O error on one entry that ends the whole sweep
EntryFault_abortSweep(s, n) ==
  /\ sw[s].st = "deleting"
  /\ n \in DOMAIN sw[s].pend
  /\ n \in DOMAIN files
  /\ sw' = [sw EXCEPT ![s] = IdleSweep]
  /\ UNCHANGED <<ui, clock, nextDue, files, used, req, hist>>

\* the pending stat or unlink of an entry fails with an I/O error: the
\* callback returns and the file is left as it is
EntryFault(s, n) ==
  /\ sw[s].st = "deleting"
  /\ n \in DOMAIN sw[s].pend
  /\ n \in DOMAIN files
  /\ sw' = DropEntry(s, n)
  /\ UNCHANGED <<ui, clock, nextDue, files, used, req, hist>>

\* ---------------------------------------------------------------- time
\* time passes, up to a horizon.  The interval timer is punctual: time does
\* not pass a due sweep, and a due sweep starts as soon as a sweep slot is
\* free
TickTo(horizon) ==
  /\ clock < horizon
  /\ clock < nextDue
  /\ clock' = clock + 1
  /\ UNCHANGED <<ui, nextDue, files, used, req, sw, hist>>

Tick == TickTo(MaxTime)

Next ==
  \/ Tick
  \/ \E r \in 1..MaxReqs : UploadNoFile(r)
  \/ \E r \in 1..MaxReqs : UploadUnexpectedField(r)
  \/ \E r \in 1..MaxReqs, q \in Requests : UploadOpen(r, q)
  \/ \E r \in 1..MaxReqs : UploadWrite(r)
  \/ \E r \in 1..MaxReqs : UploadWriteError(r)
  \/ \E r \in 1..MaxReqs : UploadFinish(r)
  \/ \E r \in 1..MaxReqs : UploadRemove(r)
  \/ \E r \in 1..MaxReqs : UploadAbort(r)
  \/ \E id \in ReadIds : ViewerGet(id)
  \/ \E id \in ReadIds : StaticGet(id)
  \/ SweepStart
  \/ \E s \in 1..MaxSweeps : ReaddirFail(s)
  \/ \E s \in 1..MaxSweeps : ReaddirDone(s)
  \/ \E s \in 1..MaxSweeps, n \in FileNames : StatDone(s, n)
  \/ \E s \in 1..MaxSweeps, n \in FileNames : UnlinkDone(s, n)
  \/ \E s \in 1..MaxSweeps, n \in FileNames : EntryFault(s, n)

Spec == Init /\ [][Next]_vars

\* the lifecycle of one asset: a single upload request, the reads and the
\* sweeps, over the longer horizon
TickReaper == TickTo(MaxTimeReaper)

NextReaper ==
  \/ TickReaper
  \/ UploadNoFile(1)
  \/ UploadUnexpectedField(1)
  \/ \E q \in Requests : UploadOpen(1, q)
  \/ UploadWrite(1)
  \/ UploadWriteError(1)
  \/ UploadFinish(1)
  \/ UploadRemove(1)
  \/ UploadAbort(1)
  \/ \E id \in ReadIds : ViewerGet(id)
  \/ \E id \in ReadIds : StaticGet(id)
  \/ SweepStart
  \/ \E s \in 1..MaxSweeps : ReaddirFail(s)
  \/ \E s \in 1..MaxSweeps : ReaddirDone(s)
  \/ \E s \in 1..MaxSweeps, n \in FileNames : StatDone(s, n)
  \/ \E s \in 1..MaxSweeps, n \in FileNames : UnlinkDone(s, n)
  \/ \E s \in 1..MaxSweeps, n \in FileNames : EntryFault(s, n)

SpecReaper == Init /\ [][NextReaper]_vars

\* the same with the scheduling of the event loop: time passes, the interval
\* timer fires when due, and every fs.readdir, fs.stat and fs.unlink that
\* was issued completes and has its callback run
FairReaper ==
  /\ WF_vars(TickReaper)
  /\ WF_vars(SweepStart)
  /\ \A s \in 1..MaxSweeps :
       /\ WF_vars(ReaddirDone(s) \/ ReaddirFail(s))
       /\ WF_vars(\E n \in FileNames :
                    StatDone(s, n) \/ UnlinkDone(s, n) \/ EntryFault(s, n))

SpecReaperFair == SpecReaper /\ FairReaper

\* overlapping sweeps: a sweep still waiting for its callbacks when the timer
\* fires again, so that two sweeps hold the same directory entries.  The
\* uploads are plain videos under the ceiling, and the first of them has
\* been stored before the first timer tick
PlainVideos == {q \in Requests : q.mime = "video" /\ q.size <= FILE_SIZE_LIMIT}

InitOverlap ==
  /\ clock = 0
  /\ nextDue = CLEANUP_INTERVAL
  /\ \E q \in PlainVideos :
       LET n == filename({}, q.originalname)
       IN /\ files = WriteChunk(CreateFile(<<>>, n, 0), n, q.size, 0)
          /\ used = {n[1]}
          /\ req = [r \in 1..MaxReqs |->
                      IF r = 1
                      THEN [st |-> "done", kind |-> q.kind, size |-> q.size,
                            written |-> q.size, name |-> n, mime |-> q.mime,
                            status |-> UploadStatus("none", TRUE), tlast |-> 0]
                      ELSE NewReq]
  /\ sw = [s \in 1..MaxOverlap |-> IdleSweep]
  /\ hist = [lastStart |-> 0, atTTL |-> {}, pastTTL |-> {}, enoent |-> {}]
  /\ ui = InitApp

NextOverlap ==
  \/ TickReaper
  \/ \E r \in 1..MaxReqs, q \in PlainVideos : UploadOpen(r, q)
  \/ \E r \in 1..MaxReqs : UploadWrite(r)
  \/ \E r \in 1..MaxReqs : UploadFinish(r)
  \/ SweepStart
  \/ \E s \in 1..MaxOverlap : ReaddirFail(s)
  \/ \E s \in 1..MaxOverlap : ReaddirDone(s)
  \/ \E s \in 1..MaxOverlap, n \in FileNames : StatDone(s, n)
  \/ \E s \in 1..MaxOverlap, n \in FileNames : UnlinkDone(s, n)
  \/ \E s \in 1..MaxOverlap, n \in FileNames : EntryFault(s, n)

SpecOverlap == InitOverlap /\ [][NextOverlap]_vars

\* -------------------------------------------------------- the upload page
\* media types of files and clipboard items, as token sequences
MediaTypes ==
  { <<"video", "/", "mp4">>, <<"application", "/", "x-", "video">>,
    <<"text", "/", "plain">> }

\* file.type.startsWith('video/')
startsWithVideo(t) == Len(t) >= 2 /\ t[1] = "video" /\ t[2] = "/"

\* items[i].type.indexOf('video') !== -1
containsVideo(t) == \E i \in 1..Len(t) : t[i] = "video"

\* the files a user can hand to the page: at or above the 500MB limit
Files ==
  [type : MediaTypes, size : {FILE_SIZE_LIMIT, FILE_SIZE_LIMIT + 1},
   originalname : {<<"a", ".", "m">>}]

\* the clipboard of a paste: up to two items, text or file
ClipItems == [type : MediaTypes, isFile : BOOLEAN, size : {FILE_SIZE_LIMIT}]
Clipboards ==
  {<<>>} \cup {<<a>> : a \in ClipItems}
         \cup {<<a, b>> : a \in {c \in ClipItems : ~c.isFile}, b \in ClipItems}

\* the handleFile calls take the slots in order
FreeCall(j) ==
  /\ ui.call[j].st = "new"
  /\ \A k \in 1..(j - 1) : ui.call[k].st # "new"

\* handleFile(file) up to its first await: the two checks, then the state
\* updates and the fetch of POST /api/upload
handleFile(f) ==
  IF ~startsWithVideo(f.type)
  THEN ui' = [ui EXCEPT !.error = <<"Please upload a valid video file">>]
  ELSE IF f.size > FILE_SIZE_LIMIT
       THEN ui' = [ui EXCEPT !.error = <<"File is too large">>]
       ELSE \E j \in 1..MaxReqs :
              /\ FreeCall(j)
              /\ ui' = [ui EXCEPT !.error = <<>>, !.uploading = TRUE,
                                   !.videoUrl = <<>>,
                                   !.call[j] = [st |-> "inflight", file |-> f]]

\* the drop zone and the file input are rendered when no link is shown and
\* nothing is uploading
DropzoneShown == ui.videoUrl = <<>> /\ ~ui.uploading

\* onDrop: handleFile(files[0])
onDrop(f) ==
  /\ DropzoneShown
  /\ handleFile(f)
  /\ UNCHANGED server

\* handleFileInput: handleFile(files[0])
handleFileInput(f) ==
  /\ DropzoneShown
  /\ handleFile(f)
  /\ UNCHANGED server

\* onPaste, registered on window for the life of the page: the first item
\* whose type contains "video" and that yields a file goes to handleFile
onPaste(items) ==
  LET I == {i \in 1..Len(items) : containsVideo(items[i].type) /\ items[i].isFile}
  IN IF I = {} THEN UNCHANGED vars
     ELSE LET i == CHOOSE i \in I : \A k \in I : i <= k
          IN /\ handleFile([type |-> items[i].type, size |-> items[i].size,
                            originalname |-> <<"a", ".", "m">>])
             /\ UNCHANGED server

\* the file part the fetch of call j sends under the field "video"
PartOf(j) ==
  [kind |-> "single", originalname |-> ui.call[j].file.originalname,
   mime |-> IF startsWithVideo(ui.call[j].file.type) THEN "video" ELSE "other",
   size |-> ui.call[j].file.size]

\* the request of call j reaches the server
FetchArrives(j) ==
  /\ ui.call[j].st = "inflight"
  /\ UploadOpen(j, PartOf(j))

\* handleFile after its awaits: the response of call j has arrived; a 2xx
\* sets the link, another status throws into the catch, which sets the
\* error; finally uploading is set to false
handleFileResponse(j) ==
  /\ ui.call[j].st = "inflight"
  /\ req[j].st = "done"
  /\ ui' = [ui EXCEPT
              !.videoUrl = IF req[j].status = 200
                           THEN <<"origin", "/v/">> \o req[j].name ELSE @,
              !.error = IF req[j].status = 200 THEN @ ELSE <<"Upload failed">>,
              !.uploading = FALSE,
              !.call[j].st = "done"]
  /\ UNCHANGED server

\* handleFile when the fetch rejects (the connection broke): the catch sets
\* the error; finally uploading is set to false
handleFileCatch(j) ==
  /\ ui.call[j].st = "inflight"
  /\ req[j].st = "aborted"
  /\ ui' = [ui EXCEPT !.error = <<"Failed to fetch">>, !.uploading = FALSE,
                       !.call[j].st = "done"]
  /\ UNCHANGED server

\* the "Send Another" button of the success panel
SendAnother ==
  /\ ui.videoUrl # <<>> /\ ~ui.uploading
  /\ ui' = [ui EXCEPT !.videoUrl = <<>>, !.error = <<>>]
  /\ UNCHANGED server

\* the page against the server: no time passes, no sweep runs
NextApp ==
  \/ \E f \in Files : onDrop(f)
  \/ \E f \in Files : handleFileInput(f)
  \/ \E items \in Clipboards : onPaste(items)
  \/ \E j \in 1..MaxReqs : FetchArrives(j)
  \/ \E j \in 1..MaxReqs : UploadWrite(j)
  \/ \E j \in 1..MaxReqs : UploadWriteError(j)
  \/ \E j \in 1..MaxReqs : UploadFinish(j)
  \/ \E j \in 1..MaxReqs : UploadAbort(j)
  \/ \E j \in 1..MaxReqs : handleFileResponse(j)
  \/ \E j \in 1..MaxReqs : handleFileCatch(j)
  \/ SendAnother

SpecApp == Init /\ [][NextApp]_vars

\* ------------------------------------------------------ what a read sees
Reqs == 1..MaxReqs

\* the asset of request r is stored: the upload was answered 200
Stored(r) == req[r].st = "done" /\ req[r].status = 200

\* both read routes report the name Present / Absent
Present(n) == Viewer(n) = 200 /\ Static(n).status = 200
Absent(n) == Viewer(n) = 404 /\ Static(n).status = 404

\* the id asks for a parent directory or holds a separator
Traversing(id) ==
  \/ "/" \in {id[i] : i \in 1..Len(id)}
  \/ id = <<".", ".">>

\* ----------------------------------------------------------------- C1
\* C1 as stated: for every stored asset last written at T, once a sweep that
\* started at or after T + TTL has handled it, every read reports it Absent,
\* and it is never read Present more than one sweep interval past T + TTL.
C1_AsStated ==
  \A r \in Reqs : Stored(r) =>
    /\ req[r].name \in hist.atTTL => Absent(req[r].name)
    /\ Viewer(req[r].name) = 200 =>
         clock - req[r].tlast <= MAX_AGE + CLEANUP_INTERVAL

\* C1 (amended): for every stored asset last written at T, once a sweep whose
\* timestamp is strictly greater than T + TTL has handled its entry without
\* an I/O error, every read reports it Absent; and whenever it is still read
\* Present more than one sweep interval past T + TTL, a sweep has already
\* been started after T + TTL.
C1_ReapedPastTTL ==
  \A r \in Reqs : Stored(r) =>
    /\ req[r].name \in hist.pastTTL => Absent(req[r].name)
    /\ (Viewer(req[r].name) = 200
        /\ clock - req[r].tlast > MAX_AGE + CLEANUP_INTERVAL)
       => hist.lastStart > req[r].tlast + MAX_AGE

\* a stored asset was left by a sweep at exactly T + TTL and removed by a
\* later one
C1_Witness ==
  \E r \in Reqs :
    /\ Stored(r)
    /\ req[r].name \in hist.atTTL
    /\ req[r].name \in hist.pastTTL
    /\ Absent(req[r].name)

\* ----------------------------------------------------------------- C2
\* C2: in every reachable state a successfully uploaded asset younger than
\* the TTL is Present (the Reaper never deletes a fresh asset).
C2_FreshIsPresent ==
  \A r \in Reqs :
    (Stored(r) /\ clock - req[r].tlast < MAX_AGE) => Viewer(req[r].name) = 200

\* ----------------------------------------------------------------- C3
\* C3: while an upload is writing its file, a read of its id sees nothing or
\* the complete file, never a shorter one.
C3_NoPartialRead ==
  \A r \in Reqs :
    (req[r].st = "writing" /\ req[r].size <= FILE_SIZE_LIMIT) =>
      /\ Static(req[r].name).status = 200 => Static(req[r].name).size = req[r].size
      /\ Viewer(req[r].name) = 200 => files[req[r].name].size = req[r].size

\* ----------------------------------------------------------------- C4
\* C4: after an upload under the ceiling is answered 200, and until its TTL
\* has elapsed, both routes report the returned id Present and the stored
\* size is the number of bytes uploaded.
C4_PresentAfterSuccess ==
  \A r \in Reqs :
    (Stored(r) /\ clock - req[r].tlast < MAX_AGE) =>
      /\ Present(req[r].name)
      /\ Static(req[r].name).size = req[r].size

\* ----------------------------------------------------------------- C5
\* C5: for an id with a parent-directory sequence or a separator, the path
\* the viewer tests is an entry directly inside the upload directory; so is
\* the path every upload writes and the path every sweep entry names.
C5_PathsStayInside ==
  /\ \A id \in ReadIds :
       Traversing(id) => InsideUploadDir(PathJoin(uploadDir, id))
  /\ \A r \in Reqs :
       req[r].name # <<>> => InsideUploadDir(PathJoin(uploadDir, req[r].name))
  /\ \A s \in 1..MaxSweeps : \A n \in DOMAIN sw[s].pend :
       InsideUploadDir(PathJoin(uploadDir, n))

\* ----------------------------------------------------------------- C6
\* C6: an id that no successful upload has minted resolves to Absent (the
\* 404 page), never to the viewer page.
C6_UnmintedIsAbsent ==
  \A id \in ReadIds :
    (~ \E r \in Reqs : Stored(r) /\ req[r].name = id) => Viewer(id) = 404

\* ----------------------------------------------------------------- C7
\* C7: an upload that exceeds the size ceiling (the server has taken bytes up
\* to the ceiling and more remain) is answered 413, and once it is answered
\* no file of that upload is in the upload directory.
C7_TooLargeLeavesNoFile ==
  \A r \in Reqs :
    (req[r].st = "done" /\ req[r].size > FILE_SIZE_LIMIT
     /\ req[r].written = FILE_SIZE_LIMIT) =>
      /\ req[r].status = 413
      /\ req[r].name \notin DOMAIN files
      /\ Absent(req[r].name)

\* an oversized upload has been answered
C7_Witness ==
  \E r \in Reqs :
    /\ req[r].st = "done" /\ req[r].size > FILE_SIZE_LIMIT
    /\ req[r].written = FILE_SIZE_LIMIT
    /\ req[r].status = 413

\* ----------------------------------------------------------------- C8
\* C8: an upload whose single file has a non-video declared media type is
\* rejected with a client error and stores no asset.
C8_NonVideoRejected ==
  \A r \in Reqs :
    (req[r].st = "done" /\ req[r].mime = "other") =>
      /\ req[r].status = 400
      /\ req[r].name \notin DOMAIN files

\* ----------------------------------------------------------------- C9
\* C9: an answered upload has the status of its outcome (200 for a stored
\* file, 413 over the ceiling, 400 for a missing file or a wrong file
\* field, 500 for a storage failure), and a status other than 200 leaves no
\* new Present asset.
C9_StatusByOutcome ==
  \A r \in Reqs : req[r].st = "done" =>
    /\ req[r].status \in {200, 400, 413, 500}
    /\ req[r].status = 200 =>
         req[r].kind = "single" /\ req[r].size <= FILE_SIZE_LIMIT
    /\ req[r].status = 413 => req[r].size > FILE_SIZE_LIMIT
    /\ req[r].status = 400 => req[r].kind \in {"nofile", "wrongfield"}
    /\ req[r].status = 500 => req[r].written < Target(req[r])
    /\ req[r].status # 200 =>
         (req[r].name = <<>> \/ Viewer(req[r].name) = 404)

\* ---------------------------------------------------------------- C10
\* C10: two uploads in flight together have distinct ids, and once both are
\* answered 200 (and neither has reached its TTL) each is Present with its
\* own content.
C10_ParallelUploads ==
  \A r1, r2 \in Reqs :
    (r1 # r2 /\ req[r1].name # <<>> /\ req[r2].name # <<>>) =>
      /\ req[r1].name # req[r2].name
      /\ (Stored(r1) /\ Stored(r2)
          /\ clock - req[r1].tlast < MAX_AGE /\ clock - req[r2].tlast < MAX_AGE)
         => /\ Present(req[r1].name) /\ Present(req[r2].name)
            /\ Static(req[r1].name).size = req[r1].size
            /\ Static(req[r2].name).size = req[r2].size

\* ---------------------------------------------------------------- C11
\* C11: deleting an id that is already absent (the second of two unlinks of
\* the same entry, issued by two overlapping sweeps that both listed it)
\* raises nothing and changes nothing: the directory, the requests and the
\* other sweep are as before, and the deleting sweep goes on with its other
\* entries.
C11_SecondDeleteNoEffect ==
  [][\A s \in DOMAIN sw : \A n \in FileNames :
       (UnlinkDone(s, n) /\ n \notin DOMAIN files) =>
         /\ files' = files
         /\ req' = req /\ used' = used
         /\ \A u \in DOMAIN sw \ {s} : sw'[u] = sw[u]
         /\ sw'[s] = DropEntry(s, n)[s]
         /\ \A m \in DOMAIN sw[s].pend \ {n} :
              sw'[s].st = "deleting" /\ m \in DOMAIN sw'[s].pend
              /\ sw'[s].pend[m] = sw[s].pend[m]]_vars

\* a second unlink of an entry has run while the sweep that issued it still
\* had another entry to handle
C11_Witness ==
  \E n \in hist.enoent : \E s \in DOMAIN sw :
    /\ n \notin DOMAIN files
    /\ sw[s].st = "deleting"
    /\ sw[s].start > 0
    /\ n \notin DOMAIN sw[s].pend

\* ---------------------------------------------------------------- C12
\* the asset stored under name n has been removed by the Reaper
Reaped(n) ==
  /\ n \notin DOMAIN files
  /\ \E r \in Reqs : Stored(r) /\ req[r].name = n

\* no upload was ever given the name n
NeverIssued(n) == \A r \in Reqs : req[r].name # n

\* C12: GET /v/:id answers an id whose asset expired and was reaped exactly
\* as it answers an id that was never issued: status 404 and the same page,
\* so the response does not tell whether the id once existed.
C12_ExpiredLikeNeverIssued ==
  \A n \in FileNames : \A m \in FileNames \cup {<<"x">>} :
    (Reaped(n) /\ NeverIssued(m)) =>
      /\ ViewerResponse(n) = ViewerResponse(m)
      /\ ViewerResponse(n).status = 404
      /\ Viewer(n) = Viewer(m)

\* an asset was stored, expired and was reaped, and another name was never
\* issued
C12_Witness ==
  \E n \in FileNames : \E m \in FileNames :
    /\ Reaped(n) /\ NeverIssued(m)
    /\ n \in hist.pastTTL

\* ---------------------------------------------------------------- C13
\* C13: once the abort of an upload (the client disconnected before the end
\* of the stream) has been handled, nothing more is written and no file of
\* that upload exists under its final name in the upload directory.
C13_AbortDiscardsPartial ==
  \A r \in Reqs :
    req[r].st = "aborted" =>
      /\ req[r].name \notin DOMAIN files
      /\ Absent(req[r].name)

\* ---------------------------------------------------------------- C14
\* C14: a stored asset that is Present keeps its directory entry, size and
\* bytes (nothing writes to it again) through every step - the two GET
\* routes, uploads of other assets, sweeps that leave it - except the
\* Reaper's unlink of that entry, which removes it; and a stored asset that
\* has been removed never comes back.
C14_OnlyReaperDestroys ==
  [][\A r \in Reqs : Stored(r) =>
       LET n == req[r].name
       IN /\ req'[r] = req[r]
          /\ n \in DOMAIN files =>
               \/ n \in DOMAIN files' /\ files'[n] = files[n]
               \/ /\ n \notin DOMAIN files'
                  /\ \E s \in DOMAIN sw : UnlinkDone(s, n)
          /\ n \notin DOMAIN files => n \notin DOMAIN files']_vars

\* one stored asset has been removed by a sweep past its TTL while another
\* asset, uploaded next to it, is stored and Present
C14_Witness ==
  \E r1, r2 \in Reqs :
    /\ Stored(r1) /\ req[r1].name \in hist.pastTTL /\ Absent(req[r1].name)
    /\ Stored(r2) /\ Present(req[r2].name)
    /\ Static(req[r2].name).size = req[r2].size

\* ---------------------------------------------------------------- C15
\* the step is a failure on entry n of sweep s: its stat or unlink fails with
\* an I/O error, or finds the file gone
EntryFails(s, n) ==
  \/ EntryFault(s, n)
  \/ StatDone(s, n) /\ n \notin DOMAIN files
  \/ UnlinkDone(s, n) /\ n \notin DOMAIN files

\* C15: within one sweep a failure on one entry is skipped and does not end
\* the sweep: every other entry of the snapshot keeps its pending stat or
\* unlink and the sweep's timestamp, and every entry is handled on its own -
\* an expired entry whose stat succeeds gets its unlink, and its unlink
\* removes the file.
C15_FailureSkipsOneEntry ==
  [][\A s \in DOMAIN sw : \A n \in DOMAIN sw[s].pend :
       /\ EntryFails(s, n) =>
            /\ files' = files
            /\ \A m \in DOMAIN sw[s].pend \ {n} :
                 /\ sw'[s].st = "deleting"
                 /\ sw'[s].now = sw[s].now
                 /\ m \in DOMAIN sw'[s].pend
                 /\ sw'[s].pend[m] = sw[s].pend[m]
       /\ (StatDone(s, n) /\ n \in DOMAIN files
           /\ Expired(sw[s].now, files[n].mtime)) =>
            sw'[s].st = "deleting" /\ sw'[s].pend[n] = "unlink"
       /\ (sw[s].st = "deleting" /\ n \in DOMAIN sw[s].pend
           /\ (sw'[s].st # "deleting" \/ n \notin DOMAIN sw'[s].pend)) =>
            \/ EntryFails(s, n)
            \/ StatDone(s, n) /\ ~Expired(sw[s].now, files[n].mtime)
            \/ UnlinkDone(s, n) /\ n \notin DOMAIN files']_vars

\* the first sweep past the TTL of two stored assets is over: the entry of
\* one failed (the file is still there, expired), the other was deleted
C15_Witness ==
  \E r1, r2 \in Reqs :
    /\ r1 # r2 /\ Stored(r1) /\ Stored(r2)
    /\ \A s \in DOMAIN sw : sw[s].st = "idle"
    /\ hist.lastStart = MAX_AGE + 1
    /\ req[r1].name \in DOMAIN files
    /\ Expired(hist.lastStart, files[req[r1].name].mtime)
    /\ req[r2].name \in hist.pastTTL
    /\ req[r2].name \notin DOMAIN files

\* ---------------------------------------------------------------- C16
\* C16: every sweep that starts returns to Idle, also when the directory
\* listing fails or entries fail, and failures never stop later sweeps: the
\* timer is re-armed at every start, a sweep is started at every tick that
\* comes due, and every tick up to the horizon gets its sweep.
C16_SweepsReturnAndRecur ==
  /\ \A s \in 1..MaxSweeps : (sw[s].st # "idle") ~> (sw[s].st = "idle")
  /\ [](nextDue = hist.lastStart + CLEANUP_INTERVAL /\ clock <= nextDue)
  /\ \A k \in 1..MaxTimeReaper :
       /\ (clock = k /\ nextDue = k) ~> (hist.lastStart = k)
       /\ <>(hist.lastStart = k)

\* the sweeps of the last two ticks are over and both left an expired file
\* in place (the listing or the entry failed), the second having started
\* after the first one failed
C16_Witness ==
  /\ hist.lastStart = MaxTimeReaper
  /\ \A s \in DOMAIN sw : sw[s].st = "idle"
  /\ \E n \in DOMAIN files :
       Expired(hist.lastStart - CLEANUP_INTERVAL, files[n].mtime)

\* ---------------------------------------------------------------- C17
\* C17: the Reaper never deletes a file whose upload is still in progress:
\* while an upload is writing, however long it has been running or stalled,
\* its file is in the upload directory, and at the moment an upload is
\* answered 200 its file is there.
C17_InProgressNotReaped ==
  \A r \in Reqs :
    /\ req[r].st = "writing" => req[r].name \in DOMAIN files
    /\ (Stored(r) /\ req[r].name \notin DOMAIN files) =>
         req[r].name \in hist.atTTL

\* ---------------------------------------------------------------- C18
\* an upload request started by handleFile call j is in flight
InFlight(j) == ui.call[j].st = "inflight"

\* C18: the uploading flag is true in every state in which a request started
\* by handleFile is in flight, whatever the interleaving of handleFile
\* calls; it is false only when none is in flight.
C18_UploadingWhileInFlight ==
  (\E j \in Reqs : InFlight(j)) => ui.uploading

\* ---------------------------------------------------------------- C19
\* the most recent handleFile call that sent a request
LastCall == CHOOSE j \in Reqs : ui.call[j].st # "new"
                                /\ \A k \in Reqs : ui.call[k].st # "new" => k <= j

\* C19: whenever a share link is displayed and no upload is in flight, it is
\* the link returned for the most recently submitted file: a response to an
\* earlier submission never replaces the later one's link or error.
C19_LinkOfLatestSubmission ==
  (ui.videoUrl # <<>> /\ ~ \E j \in Reqs : InFlight(j)) =>
    /\ req[LastCall].status = 200
    /\ ui.videoUrl = <<"origin", "/v/">> \o req[LastCall].name
====
